---- MODULE Spec2Model ----
(***************************************************************************)
(* Model of checkers/board.py: the Board class (grid, live-piece and king  *)
(* counters), move application, capture removal, win detection, the        *)
(* evaluation function and the recursive move generator.                   *)
(*                                                                         *)
(* Pieces are Python objects, so each one is an identity (a number         *)
(* 1..n) with mutable fields row, col, king and a fixed color; a grid cell *)
(* holds 0 (empty) or a piece identity.  A captured piece keeps its fields *)
(* but is no longer referenced by the grid.                                *)
(***************************************************************************)
EXTENDS Integers, Sequences, FiniteSets, TLC

VARIABLES board, pieces, white_left, red_left, white_kings, red_kings,
          skipped_left, skipped_right,
          pc, sel, calls, moves, accessed, captured, plies

vars == <<board, pieces, white_left, red_left, white_kings, red_kings,
          skipped_left, skipped_right,
          pc, sel, calls, moves, accessed, captured, plies>>

(***************************************************************************)
(* Bounds of the model.                                                    *)
(***************************************************************************)
\* plays (get_valid_moves, move, remove) applied to the constructed board
MaxPlies == 4
\* consecutive get_valid_moves calls on the same piece and unchanged board
MaxCalls == 2
\* pieces other than the queried one on a drawn mid-game board
MaxOthers == 3

(***************************************************************************)
(* config.py                                                               *)
(***************************************************************************)
ROWS == 8
COLS == 8
PLAYER_COLOR_TOP == "top"
PLAYER_COLOR_BOTTOM == "bottom"

Max(a, b) == IF a >= b THEN a ELSE b
Min(a, b) == IF a <= b THEN a ELSE b

(***************************************************************************)
(* Python containers.                                                      *)
(***************************************************************************)
\* {} : the empty dict
EmptyDict == [k \in {} |-> <<>>]

\* d1.update(d2): keys of d2 overwrite those of d1
DictUpdate(d1, d2) ==
    [k \in (DOMAIN d1) \cup (DOMAIN d2) |-> IF k \in DOMAIN d2 THEN d2[k] ELSE d1[k]]

\* Python list subscripting: indices -len..-1 count from the end of the list,
\* anything else outside 0..len-1 raises IndexError.
Subscriptable(r, c) ==
    r \in (0 - ROWS)..(ROWS - 1) /\ c \in (0 - COLS)..(COLS - 1)

\* self.board[r][c]
GridGet(b, r, c) == b[r % ROWS][c % COLS]

\* result of a traversal: the dict it returns (m) and the (row, col)
\* subscripts it used on the grid (a).  A subscript that raises IndexError
\* ends the traversal and stays in a.
Res(m, a) == [m |-> m, a |-> a]

\* x.m.update(y.m), with the reads of both
Merge2(x, y) == Res(DictUpdate(x.m, y.m), x.a \cup y.a)
Merge3(x, y, z) == Merge2(Merge2(x, y), z)

\* r is produced by range(start, stop, step) when iteration has reached r
InRange(r, stop, step) == IF step = -1 THEN r > stop ELSE r < stop

\* variant: the left column test is off by one
LeftOffLate(left) == left < -1

\* the column tests that end a traversal at the side of the board
LeftOff(left) == left < 0
RightOff(right) == right >= COLS

\* variant: the piece just jumped is left out of the capture list
CapturesSkippedOnly(last, skipped) == skipped

\* the capture list a traversal records for an empty cell it can land on
Captures(last, skipped) == IF skipped # <<>> THEN last \o skipped ELSE last

\* the stop row of the traversals that continue a jump from landing row r
ContinueStop(r, step) == IF step = -1 THEN Max(r - 3, 0) ELSE Min(r + 3, ROWS)

\* variant: the first traversals look one row farther
FirstStopLong(row, step) == IF step = -1 THEN Max(row - 4, -1) ELSE Min(row + 4, ROWS)

\* variant: the first traversals look one row less far
FirstStopShort(row, step) == IF step = -1 THEN Max(row - 2, -1) ELSE Min(row + 2, ROWS)

\* the stop row of the traversals get_valid_moves starts from the piece's row
FirstStop(row, step) == IF step = -1 THEN Max(row - 3, -1) ELSE Min(row + 3, ROWS)

(***************************************************************************)
(* Board._traverse_left / Board._traverse_right, on the grid b (self.board)*)
(* and the piece objects ps.  loop_left(b, ps, r, ...) is the for-loop of  *)
(* _traverse_left from the iteration with row r on, with the current       *)
(* values of the loop-carried locals left and last.                        *)
(***************************************************************************)
RECURSIVE loop_left(_, _, _, _, _, _, _, _, _)
RECURSIVE loop_right(_, _, _, _, _, _, _, _, _)
RECURSIVE traverse_left(_, _, _, _, _, _, _, _)
RECURSIVE traverse_right(_, _, _, _, _, _, _, _)

loop_left(b, ps, r, stop, step, color, left, skipped, last) ==
    IF ~InRange(r, stop, step) THEN Res(EmptyDict, {})
    ELSE IF LeftOff(left) THEN Res(EmptyDict, {})
    ELSE IF ~Subscriptable(r, left) THEN Res(EmptyDict, {<<r, left>>})
    ELSE LET current == GridGet(b, r, left)
             here == {<<r, left>>}
         IN  IF current = 0
             THEN IF skipped # <<>> /\ last = <<>>
                  THEN Res(EmptyDict, here)
                  ELSE LET own == [k \in {<<r, left>>} |-> Captures(last, skipped)]
                       IN  IF last # <<>>
                           THEN LET row == ContinueStop(r, step)
                                    tl == traverse_left(b, ps, r + step, row, step, color, left - 1, last)
                                    tr == traverse_right(b, ps, r + step, row, step, color, left + 1, last)
                                IN  Merge3(Res(own, here), tl, tr)
                           ELSE Res(own, here)
             ELSE IF ps[current].color = color
             THEN Res(EmptyDict, here)
             ELSE LET rest == loop_left(b, ps, r + step, stop, step, color, left - 1,
                                        skipped, <<current>>)
                  IN  Merge2(Res(EmptyDict, here), rest)

loop_right(b, ps, r, stop, step, color, right, skipped, last) ==
    IF ~InRange(r, stop, step) THEN Res(EmptyDict, {})
    ELSE IF RightOff(right) THEN Res(EmptyDict, {})
    ELSE IF ~Subscriptable(r, right) THEN Res(EmptyDict, {<<r, right>>})
    ELSE LET current == GridGet(b, r, right)
             here == {<<r, right>>}
         IN  IF current = 0
             THEN IF skipped # <<>> /\ last = <<>>
                  THEN Res(EmptyDict, here)
                  ELSE LET own == [k \in {<<r, right>>} |-> Captures(last, skipped)]
                       IN  IF last # <<>>
                           THEN LET row == ContinueStop(r, step)
                                    tl == traverse_left(b, ps, r + step, row, step, color, right - 1, last)
                                    tr == traverse_right(b, ps, r + step, row, step, color, right + 1, last)
                                IN  Merge3(Res(own, here), tl, tr)
                           ELSE Res(own, here)
             ELSE IF ps[current].color = color
             THEN Res(EmptyDict, here)
             ELSE LET rest == loop_right(b, ps, r + step, stop, step, color, right + 1,
                                         skipped, <<current>>)
                  IN  Merge2(Res(EmptyDict, here), rest)

traverse_left(b, ps, start, stop, step, color, left, skipped) ==
    loop_left(b, ps, start, stop, step, color, left, skipped, <<>>)

traverse_right(b, ps, start, stop, step, color, right, skipped) ==
    loop_right(b, ps, start, stop, step, color, right, skipped, <<>>)

\* variant: every piece may travel toward row 0
MovesUpAlways(color, king) == TRUE

\* the tests of get_valid_moves that permit travel toward row 0 and toward
\* the last row
MovesUp(color, king) == color = PLAYER_COLOR_BOTTOM \/ king
MovesDown(color, king) == color = PLAYER_COLOR_TOP \/ king

(***************************************************************************)
(* Board.get_valid_moves.  The four top-level traversals omit the skipped  *)
(* argument, so they receive the functions' shared default list objects,   *)
(* whose current contents are the variables skipped_left / skipped_right.  *)
(***************************************************************************)
get_valid_moves(b, ps, piece, dleft, dright) ==
    LET left == ps[piece].col - 1
        right == ps[piece].col + 1
        row == ps[piece].row
        color == ps[piece].color
        none == Res(EmptyDict, {})
        up == MovesUp(color, ps[piece].king)
        down == MovesDown(color, ps[piece].king)
        ul == IF up THEN traverse_left(b, ps, row - 1, FirstStop(row, -1), -1, color, left, dleft)
                    ELSE none
        ur == IF up THEN traverse_right(b, ps, row - 1, FirstStop(row, -1), -1, color, right, dright)
                    ELSE none
        dl == IF down THEN traverse_left(b, ps, row + 1, FirstStop(row, 1), 1, color, left, dleft)
                      ELSE none
        dr == IF down THEN traverse_right(b, ps, row + 1, FirstStop(row, 1), 1, color, right, dright)
                      ELSE none
    IN  Merge2(Merge3(ul, ur, dl), dr)

\* variant: the traversal appends to skipped in place, so the captures of a
\* call stay in the shared default list
SkippedLeftAfterShared(piece) ==
    LET m == get_valid_moves(board, pieces, piece, skipped_left, skipped_right).m
        caps == {k \in DOMAIN m : m[k] # <<>>}
    IN  IF caps = {} THEN skipped_left
        ELSE skipped_left \o m[CHOOSE k \in caps : TRUE]

\* contents of the default skipped lists after a get_valid_moves call: the
\* traversals only test skipped and build new lists with last + skipped
SkippedLeftAfter(piece) == skipped_left
SkippedRightAfter(piece) == skipped_right

(***************************************************************************)
(* piece.py                                                                *)
(***************************************************************************)
\* Piece.move(row, col)
PieceMove(ps, piece, row, col) == [ps EXCEPT ![piece].row = row, ![piece].col = col]
\* Piece.make_king()
MakeKing(ps, piece) == [ps EXCEPT ![piece].king = TRUE]

(***************************************************************************)
(* Board.move, as the new values of the fields it assigns.                 *)
(***************************************************************************)
\* variant: the piece is put in the target row of the column it stands in
MoveBoardOwnCol(piece, row, col) ==
    LET pr == pieces[piece].row
        pcol == pieces[piece].col
        b1 == [board EXCEPT ![pr][pcol] = board[row][pcol]]
    IN  [b1 EXCEPT ![row][pcol] = piece]

MoveBoard(piece, row, col) ==
    LET pr == pieces[piece].row
        pcol == pieces[piece].col
        a == board[row][col]
        b == board[pr][pcol]
        b1 == [board EXCEPT ![pr][pcol] = a]
    IN  [b1 EXCEPT ![row][col] = b]

\* variant: promotion one row before the edge rows
PromotesNearEdge(row) == row = ROWS - 2 \/ row = 1

Promotes(row) == row = ROWS - 1 \/ row = 0

MovePieces(piece, row, col) ==
    LET moved == PieceMove(pieces, piece, row, col)
    IN  IF Promotes(row) THEN MakeKing(moved, piece) ELSE moved

\* variant: a piece that is a king already is not counted again
MoveWhiteKingsOnce(piece, row) ==
    IF Promotes(row) /\ pieces[piece].color = PLAYER_COLOR_TOP /\ ~pieces[piece].king
    THEN white_kings + 1 ELSE white_kings

MoveWhiteKings(piece, row) ==
    IF Promotes(row) /\ pieces[piece].color = PLAYER_COLOR_TOP
    THEN white_kings + 1 ELSE white_kings

MoveRedKings(piece, row) ==
    IF Promotes(row) /\ pieces[piece].color # PLAYER_COLOR_TOP
    THEN red_kings + 1 ELSE red_kings

(***************************************************************************)
(* Board.remove: the loop over the given list, as a fold over a record of  *)
(* the fields it assigns.                                                  *)
(***************************************************************************)
\* variant: remove clears the cell and leaves the counters alone
RemoveOneNoCount(st, piece) ==
    [board |-> [st.board EXCEPT ![pieces[piece].row][pieces[piece].col] = 0],
     red_left |-> st.red_left,
     white_left |-> st.white_left]

\* variant: remove adds to the counter of the captured piece's color
RemoveOneIncrements(st, piece) ==
    [board |-> [st.board EXCEPT ![pieces[piece].row][pieces[piece].col] = 0],
     red_left |-> IF pieces[piece].color = PLAYER_COLOR_BOTTOM
                  THEN st.red_left + 1 ELSE st.red_left,
     white_left |-> IF pieces[piece].color = PLAYER_COLOR_BOTTOM
                    THEN st.white_left ELSE st.white_left + 1]

RemoveOne(st, piece) ==
    [board |-> [st.board EXCEPT ![pieces[piece].row][pieces[piece].col] = 0],
     red_left |-> IF pieces[piece].color = PLAYER_COLOR_BOTTOM
                  THEN st.red_left - 1 ELSE st.red_left,
     white_left |-> IF pieces[piece].color = PLAYER_COLOR_BOTTOM
                    THEN st.white_left ELSE st.white_left - 1]

RECURSIVE RemoveLoop(_, _)
RemoveLoop(st, ps) ==
    IF ps = <<>> THEN st ELSE RemoveLoop(RemoveOne(st, Head(ps)), Tail(ps))

remove(ps) ==
    RemoveLoop([board |-> board, red_left |-> red_left, white_left |-> white_left], ps)

(***************************************************************************)
(* Board.winner and Board.evaluate.                                        *)
(***************************************************************************)
None == "None"

\* variant: a color wins only below zero
WinnerOfStrict(rl, wl) ==
    IF rl < 0 THEN PLAYER_COLOR_TOP
    ELSE IF wl < 0 THEN PLAYER_COLOR_BOTTOM
    ELSE None

WinnerOf(rl, wl) ==
    IF rl <= 0 THEN PLAYER_COLOR_TOP
    ELSE IF wl <= 0 THEN PLAYER_COLOR_BOTTOM
    ELSE None

winner == WinnerOf(red_left, white_left)

\* variant: a king weighs a full point
Evaluate2OfFullKings(wl, rl, wk, rk) == 2 * wl - 2 * rl + (2 * wk - 2 * rk)

\* evaluate() is a float with halves; Evaluate2Of is twice its value, which
\* is exact: white_left - red_left + (white_kings * 0.5 - red_kings * 0.5)
Evaluate2Of(wl, rl, wk, rk) == 2 * wl - 2 * rl + (wk - rk)

evaluate2 == Evaluate2Of(white_left, red_left, white_kings, red_kings)

(***************************************************************************)
(* Board.__init__ and Board.create_board.  Pieces are numbered in the      *)
(* order create_board constructs them (row-major).                         *)
(***************************************************************************)
Rows == 0..(ROWS - 1)
Cols == 0..(COLS - 1)

\* variant: the top color fills two rows only
NewCellTwoRows(r, c) ==
    IF c % 2 = ((r + 1) % 2)
    THEN IF r < 2 THEN PLAYER_COLOR_TOP
         ELSE IF r > 4 THEN PLAYER_COLOR_BOTTOM
         ELSE "none"
    ELSE "none"

\* the color of the piece create_board constructs for cell (r, c), if any
NewCell(r, c) ==
    IF c % 2 = ((r + 1) % 2)
    THEN IF r < 3 THEN PLAYER_COLOR_TOP
         ELSE IF r > 4 THEN PLAYER_COLOR_BOTTOM
         ELSE "none"
    ELSE "none"

StartCells == {rc \in Rows \X Cols : NewCell(rc[1], rc[2]) # "none"}

StartId(r, c) ==
    1 + Cardinality({rc \in StartCells : rc[1] < r \/ (rc[1] = r /\ rc[2] < c)})

create_board ==
    [r \in Rows |-> [c \in Cols |->
        IF NewCell(r, c) # "none" THEN StartId(r, c) ELSE 0]]

create_pieces ==
    [i \in 1..Cardinality(StartCells) |->
        LET rc == CHOOSE x \in StartCells : StartId(x[1], x[2]) = i
        IN  [row |-> rc[1], col |-> rc[2], color |-> NewCell(rc[1], rc[2]),
             king |-> FALSE]]

\* __init__: red_left = white_left = 12, red_kings = white_kings = 0
InitialLeft == 12
InitialKings == 0

Constructed ==
    /\ board = create_board
    /\ pieces = create_pieces
    /\ red_left = InitialLeft
    /\ white_left = InitialLeft
    /\ red_kings = InitialKings
    /\ white_kings = InitialKings

Idle ==
    /\ pc = "idle"
    /\ calls = 0
    /\ moves = EmptyDict
    /\ accessed = {}
    /\ captured = <<>>
    /\ plies = 0
    /\ skipped_left = <<>>
    /\ skipped_right = <<>>

Init ==
    /\ Constructed
    /\ sel = 0
    /\ Idle

(***************************************************************************)
(* Operations.  The caller (the game controller) asks for the moves of a   *)
(* piece, picks one of the returned destinations, calls move and then      *)
(* remove on the capture list mapped to that destination.                  *)
(***************************************************************************)
Live(p) == board[pieces[p].row][pieces[p].col] = p

GetValidMoves(piece) ==
    /\ \/ pc = "idle"
       \/ pc = "selected" /\ sel = piece /\ calls < MaxCalls
    /\ Live(piece)
    /\ LET res == get_valid_moves(board, pieces, piece, skipped_left, skipped_right)
       IN  /\ moves' = res.m
           /\ accessed' = res.a
    /\ skipped_left' = SkippedLeftAfter(piece)
    /\ skipped_right' = SkippedRightAfter(piece)
    /\ sel' = piece
    /\ calls' = IF pc = "idle" THEN 1 ELSE calls + 1
    /\ pc' = "selected"
    /\ UNCHANGED <<board, pieces, white_left, red_left, white_kings, red_kings,
                   captured, plies>>

Move(row, col) ==
    /\ pc = "selected"
    /\ <<row, col>> \in DOMAIN moves
    /\ board' = MoveBoard(sel, row, col)
    /\ pieces' = MovePieces(sel, row, col)
    /\ white_kings' = MoveWhiteKings(sel, row)
    /\ red_kings' = MoveRedKings(sel, row)
    /\ captured' = moves[<<row, col>>]
    /\ moves' = EmptyDict
    /\ accessed' = {}
    /\ calls' = 0
    /\ pc' = "moved"
    /\ UNCHANGED <<white_left, red_left, skipped_left, skipped_right, sel, plies>>

Remove ==
    /\ pc = "moved"
    /\ LET st == remove(captured)
       IN  /\ board' = st.board
           /\ red_left' = st.red_left
           /\ white_left' = st.white_left
    /\ captured' = <<>>
    /\ sel' = 0
    /\ pc' = "idle"
    /\ plies' = plies + 1
    /\ UNCHANGED <<pieces, white_kings, red_kings, skipped_left, skipped_right,
                   calls, moves, accessed>>

Next ==
    \/ \E p \in DOMAIN pieces : plies < MaxPlies /\ GetValidMoves(p)
    \/ \E r \in Rows, c \in Cols : Move(r, c)
    \/ Remove

Spec == Init /\ [][Next]_vars

(***************************************************************************)
(* Mid-game boards.  A drawn board holds the piece that get_valid_moves is *)
(* asked about (m: row, col, color, king) and up to MaxOthers other pieces *)
(* (o: row, col, color), each on a cell that the traversal for m reads: a  *)
(* piece on a cell that is never read cannot change the result.  A piece   *)
(* standing on its promotion row is a king, as move leaves it.  The        *)
(* live-piece counters are those of a game in which every other piece has  *)
(* been captured; the king counters count the kings on the grid.  The      *)
(* constructed board is one more board to draw.                            *)
(***************************************************************************)
Colors == {PLAYER_COLOR_TOP, PLAYER_COLOR_BOTTOM}

Playable(r, c) == c % 2 = ((r + 1) % 2)

OnPromotionRow(r, color) ==
    IF color = PLAYER_COLOR_TOP THEN r = ROWS - 1 ELSE r = 0

Queried ==
    {m \in Rows \X Cols \X Colors \X BOOLEAN :
        Playable(m[1], m[2]) /\ (OnPromotionRow(m[1], m[3]) => m[4])}

\* a piece of a drawn board is identified by the cell it stands on
CellId(r, c) == 1 + r * COLS + c
IdRow(i) == (i - 1) \div COLS
IdCol(i) == (i - 1) % COLS

QueriedId(cfg) == CellId(cfg.m[1], cfg.m[2])

BoardOf(cfg) ==
    LET occ == {QueriedId(cfg)} \cup DOMAIN cfg.o
    IN  [r \in Rows |-> [c \in Cols |->
            IF CellId(r, c) \in occ THEN CellId(r, c) ELSE 0]]

PiecesOf(cfg) ==
    [i \in {QueriedId(cfg)} \cup DOMAIN cfg.o |->
        IF i = QueriedId(cfg)
        THEN [row |-> cfg.m[1], col |-> cfg.m[2], color |-> cfg.m[3], king |-> cfg.m[4]]
        ELSE [row |-> IdRow(i), col |-> IdCol(i), color |-> cfg.o[i],
              king |-> OnPromotionRow(IdRow(i), cfg.o[i])]]

\* the empty cells that get_valid_moves reads for the queried piece
EmptyReadsOn(b, ps, piece) ==
    {CellId(rc[1], rc[2]) :
        rc \in {x \in get_valid_moves(b, ps, piece, <<>>, <<>>).a :
                   x[1] \in Rows /\ x[2] \in Cols /\ b[x[1]][x[2]] = 0}}

EmptyReads(cfg) ==
    UNION {EmptyReadsOn(w[1], w[2], QueriedId(cfg)) :
              w \in {<<BoardOf(cfg), PiecesOf(cfg)>>}}

Place(cfg, i, color) ==
    [m |-> cfg.m,
     o |-> [j \in DOMAIN cfg.o \cup {i} |-> IF j = i THEN color ELSE cfg.o[j]]]

Extend(cfgs) ==
    UNION {{Place(cfg, i, color) : i \in EmptyReads(cfg), color \in Colors} : cfg \in cfgs}

RECURSIVE Grow(_, _, _)
Grow(k, frontier, all) ==
    IF k = 0 THEN all \cup frontier
    ELSE UNION {Grow(k - 1, next, all \cup frontier) : next \in {Extend(frontier)}}

\* the drawn boards on which get_valid_moves is asked about m
BoardsFor(m) == Grow(MaxOthers, {[m |-> m, o |-> EmptyDict]}, {})

CountOf(ps, color) == Cardinality({i \in DOMAIN ps : ps[i].color = color})
KingsOf(ps, color) == Cardinality({i \in DOMAIN ps : ps[i].color = color /\ ps[i].king})

Drawn(cfg) ==
    /\ board = BoardOf(cfg)
    /\ pieces = PiecesOf(cfg)
    /\ red_left = CountOf(pieces, PLAYER_COLOR_BOTTOM)
    /\ white_left = CountOf(pieces, PLAYER_COLOR_TOP)
    /\ red_kings = KingsOf(pieces, PLAYER_COLOR_BOTTOM)
    /\ white_kings = KingsOf(pieces, PLAYER_COLOR_TOP)
    /\ sel = QueriedId(cfg)

\* the caller holds a piece (sel) of the constructed board or of a drawn
\* mid-game board
InitBoards ==
    /\ \/ Constructed /\ sel \in DOMAIN create_pieces
       \/ \E m \in Queried : \E cfg \in BoardsFor(m) : Drawn(cfg)
    /\ Idle

\* one play of the queried piece on the drawn board
NextBoards ==
    \/ sel # 0 /\ GetValidMoves(sel)
    \/ \E r \in Rows, c \in Cols : Move(r, c)
    \/ Remove

SpecBoards == InitBoards /\ [][NextBoards]_vars

(***************************************************************************)
(* Properties.                                                             *)
(***************************************************************************)
Cells == Rows \X Cols

OnBoard(r, c) == r \in Rows /\ c \in Cols

EmptyCell(r, c) == OnBoard(r, c) /\ board[r][c] = 0

\* cell (r, c) holds a piece of the color opposite to piece p
Opponent(p, r, c) ==
    OnBoard(r, c) /\ board[r][c] # 0 /\ pieces[board[r][c]].color # pieces[p].color

\* the row directions piece p is permitted to travel
RowDirs(p) ==
    {d \in {-1, 1} :
        \/ d = -1 /\ (pieces[p].color = PLAYER_COLOR_BOTTOM \/ pieces[p].king)
        \/ d = 1 /\ (pieces[p].color = PLAYER_COLOR_TOP \/ pieces[p].king)}

SeqSet(q) == {q[i] : i \in DOMAIN q}

GridCount(color) ==
    Cardinality({rc \in Cells : board[rc[1]][rc[2]] # 0
                                /\ pieces[board[rc[1]][rc[2]]].color = color})

\* C1: in every state reached from the constructed board by plays, a piece held
\* by a grid cell stores that cell as its (row, col), so no piece is held by
\* two cells, and for each color the number of its pieces on the grid is that
\* color's live-piece counter.
C1_GridAndCounters ==
    /\ \A rc \in Cells :
          board[rc[1]][rc[2]] # 0 =>
              /\ pieces[board[rc[1]][rc[2]]].row = rc[1]
              /\ pieces[board[rc[1]][rc[2]]].col = rc[2]
    /\ GridCount(PLAYER_COLOR_BOTTOM) = red_left
    /\ GridCount(PLAYER_COLOR_TOP) = white_left

\* a play that captured a piece has been completed
C1_Witness ==
    /\ pc = "idle"
    /\ plies > 0
    /\ red_left + white_left < 2 * InitialLeft

\* C4: when a cell diagonally adjacent to the queried piece in a permitted row
\* direction holds an opponent piece and the next cell of that diagonal is on
\* the board and empty, the returned mapping has that cell as a destination
\* and its capture list contains the opponent piece.
C4_SingleJumpOffered ==
    pc = "selected" =>
        \A d \in RowDirs(sel), e \in {-1, 1} :
            LET r == pieces[sel].row
                c == pieces[sel].col
            IN  (Opponent(sel, r + d, c + e) /\ EmptyCell(r + 2 * d, c + 2 * e)) =>
                    /\ <<r + 2 * d, c + 2 * e>> \in DOMAIN moves
                    /\ board[r + d][c + e] \in SeqSet(moves[<<r + 2 * d, c + 2 * e>>])

\* the bottom piece at (5,4) with an opponent at (4,3) and (3,2) empty
C4_Witness ==
    /\ pc = "selected"
    /\ pieces[sel].row = 5 /\ pieces[sel].col = 4
    /\ pieces[sel].color = PLAYER_COLOR_BOTTOM /\ ~pieces[sel].king
    /\ Opponent(sel, 4, 3) /\ EmptyCell(3, 2)
    /\ <<3, 2>> \in DOMAIN moves
    /\ moves[<<3, 2>>] = <<board[4][3]>>

\* C5: every destination get_valid_moves returns is a cell of the board that
\* is empty, and every subscript the traversals use on the grid is within
\* 0..7 in both coordinates.
C5_OnBoardAndEmpty ==
    pc = "selected" =>
        /\ \A k \in DOMAIN moves : OnBoard(k[1], k[2]) /\ board[k[1]][k[2]] = 0
        /\ \A a \in accessed : OnBoard(a[1], a[2])

\* a two-jump destination found by the recursive calls, with reads on both
\* side columns of the board
C5_Witness ==
    /\ pc = "selected"
    /\ \E k \in DOMAIN moves : Len(moves[k]) = 2
    /\ \E a \in accessed : a[2] = 0
    /\ \E a \in accessed : a[2] = COLS - 1

\* the two-jump path of piece p in row direction d with column directions
\* e1 then e2 exists on the board: both jumped cells hold opponent pieces and
\* both landing cells are on the board and empty
TwoJumps(p, d, e1, e2) ==
    LET r == pieces[p].row
        c == pieces[p].col
    IN  /\ Opponent(p, r + d, c + e1)
        /\ EmptyCell(r + 2 * d, c + 2 * e1)
        /\ Opponent(p, r + 3 * d, c + 2 * e1 + e2)
        /\ EmptyCell(r + 4 * d, c + 2 * e1 + 2 * e2)

\* the two pieces jumped on that path
TwoJumped(p, d, e1, e2) ==
    {board[pieces[p].row + d][pieces[p].col + e1],
     board[pieces[p].row + 3 * d][pieces[p].col + 2 * e1 + e2]}

\* the landing cell of that path
TwoLanding(p, d, e1, e2) ==
    <<pieces[p].row + 4 * d, pieces[p].col + 2 * e1 + 2 * e2>>

\* the second landing cell of every two-jump path of piece p in direction d,
\* taken over the landing rows in rows, is a destination whose capture list
\* contains both pieces of a two-jump path to it
DoubleJumpsOffered(p, d, rows) ==
    \A e1 \in {-1, 1}, e2 \in {-1, 1} :
        (TwoJumps(p, d, e1, e2) /\ TwoLanding(p, d, e1, e2)[1] \in rows) =>
            /\ TwoLanding(p, d, e1, e2) \in DOMAIN moves
            /\ \E f1 \in {-1, 1}, f2 \in {-1, 1} :
                  /\ TwoJumps(p, d, f1, f2)
                  /\ TwoLanding(p, d, f1, f2) = TwoLanding(p, d, e1, e2)
                  /\ TwoJumped(p, d, f1, f2) \subseteq
                         SeqSet(moves[TwoLanding(p, d, e1, e2)])

\* C2: for every permitted row direction, toward row 0 and toward row 7 and
\* with the second landing cell on the edge row included, two consecutive
\* available jumps yield the second landing cell as a destination whose
\* capture list contains both pieces jumped on a two-jump path to it.
C2_DoubleJumpOffered ==
    pc = "selected" => \A d \in RowDirs(sel) : DoubleJumpsOffered(sel, d, Rows)

\* the same for every second landing cell that is not on row 0
C2_DoubleJumpOfferedBelowRow0 ==
    pc = "selected" => \A d \in RowDirs(sel) : DoubleJumpsOffered(sel, d, Rows \ {0})

\* column displacement after the first i jumps of a chain with column
\* directions es
RECURSIVE ColShift(_, _)
ColShift(es, i) == IF i = 0 THEN 0 ELSE ColShift(es, i - 1) + 2 * es[i]

\* cell jumped by the i-th jump, and cell landed on after it, of the chain of
\* piece p in row direction d with column directions es
JumpedCell(p, d, es, i) ==
    <<pieces[p].row + (2 * i - 1) * d, pieces[p].col + ColShift(es, i - 1) + es[i]>>

LandingCell(p, d, es, i) ==
    <<pieces[p].row + 2 * i * d, pieces[p].col + ColShift(es, i)>>

\* the chain exists on the board
Chain(p, d, es) ==
    \A i \in DOMAIN es :
        /\ Opponent(p, JumpedCell(p, d, es, i)[1], JumpedCell(p, d, es, i)[2])
        /\ EmptyCell(LandingCell(p, d, es, i)[1], LandingCell(p, d, es, i)[2])

ChainPieces(p, d, es) ==
    {board[JumpedCell(p, d, es, i)[1]][JumpedCell(p, d, es, i)[2]] : i \in DOMAIN es}

\* the capture list q of destination k is that of a chain of n jumps of piece
\* p to k: n distinct pieces, the pieces the chain jumps
ListOfChain(p, k, q, n) ==
    /\ Len(q) = n
    /\ Cardinality(SeqSet(q)) = n
    /\ \E d \in RowDirs(p), es \in [1..n -> {-1, 1}] :
          /\ Chain(p, d, es)
          /\ LandingCell(p, d, es, n) = k
          /\ ChainPieces(p, d, es) = SeqSet(q)

\* every destination is one row away with an empty capture list, or is
\* reached by a chain of 1..most jumps and its capture list holds exactly the
\* pieces of such a chain
CaptureListsComplete(most) ==
    \A k \in DOMAIN moves :
        \/ /\ k[1] - pieces[sel].row \in {-1, 1}
           /\ k[2] - pieces[sel].col \in {-1, 1}
           /\ moves[k] = <<>>
        \/ \E n \in 1..most : ListOfChain(sel, k, moves[k], n)

\* C3: every destination returned by get_valid_moves maps to a capture list
\* that holds all pieces jumped along a jump chain from the piece's cell to
\* it, so a destination reached by n jumps (n = 0, 1, 2, 3) has exactly n
\* distinct pieces in its list.
C3_CaptureListsComplete ==
    pc = "selected" => CaptureListsComplete(3)

\* the same for the destinations at most four rows (two jumps) away
C3_UpToTwoJumps ==
    pc = "selected" =>
        \A k \in DOMAIN moves :
            (k[1] - pieces[sel].row \in -4..4) =>
                \/ /\ k[1] - pieces[sel].row \in {-1, 1}
                   /\ k[2] - pieces[sel].col \in {-1, 1}
                   /\ moves[k] = <<>>
                \/ \E n \in 1..2 : ListOfChain(sel, k, moves[k], n)

OnGrid(p) == \E rc \in Cells : board[rc[1]][rc[2]] = p

KingsOnGrid(color) ==
    Cardinality({p \in DOMAIN pieces :
                    OnGrid(p) /\ pieces[p].color = color /\ pieces[p].king})

\* C6: a move to row 0 or row 7 leaves the moved piece a king and raises the
\* king counter of its color by exactly 1, with the other king counter and
\* both live-piece counters unchanged; a move to a row 1..6 leaves the king
\* flag and all four counters unchanged.
C6_MoveKingEffect ==
    [][(pc = "selected" /\ pc' = "moved") =>
          IF pieces'[sel].row = 0 \/ pieces'[sel].row = 7
          THEN /\ pieces'[sel].king
               /\ IF pieces[sel].color = PLAYER_COLOR_TOP
                  THEN white_kings' = white_kings + 1 /\ red_kings' = red_kings
                  ELSE red_kings' = red_kings + 1 /\ white_kings' = white_kings
               /\ white_left' = white_left /\ red_left' = red_left
          ELSE /\ pieces'[sel].king = pieces[sel].king
               /\ white_kings' = white_kings /\ red_kings' = red_kings
               /\ white_left' = white_left /\ red_left' = red_left]_vars

\* a top-color king has been moved onto an edge row again: the counter of its
\* color exceeds the kings of that color on the grid
C6_Witness ==
    /\ pc = "moved"
    /\ pieces[sel].row \in {0, 7}
    /\ pieces[sel].color = PLAYER_COLOR_TOP
    /\ white_kings > KingsOnGrid(PLAYER_COLOR_TOP)

\* C7: the constructed board holds exactly 12 top-color pieces, in rows 0..2,
\* and 12 bottom-color pieces, in rows 5..7, all on cells with
\* col % 2 = (row + 1) % 2; rows 3 and 4 are empty; both live counters are 12
\* and agree with the grid; both king counters are 0, no piece is a king and
\* winner() returns none.
C7_StartPosition ==
    (plies = 0 /\ pc # "moved") =>
        /\ GridCount(PLAYER_COLOR_TOP) = 12
        /\ GridCount(PLAYER_COLOR_BOTTOM) = 12
        /\ \A rc \in Cells :
              board[rc[1]][rc[2]] # 0 =>
                  /\ rc[2] % 2 = (rc[1] + 1) % 2
                  /\ rc[1] \notin {3, 4}
                  /\ pieces[board[rc[1]][rc[2]]].color = PLAYER_COLOR_TOP <=> rc[1] \in 0..2
                  /\ pieces[board[rc[1]][rc[2]]].color = PLAYER_COLOR_BOTTOM <=> rc[1] \in 5..7
                  /\ ~pieces[board[rc[1]][rc[2]]].king
        /\ white_left = 12 /\ red_left = 12
        /\ white_kings = 0 /\ red_kings = 0
        /\ winner = None

\* the board right after construction
C7_Witness ==
    /\ plies = 0 /\ pc = "idle" /\ sel = 0
    /\ board[0][1] # 0 /\ board[7][0] # 0

\* C8: twice the value of evaluate() is
\* 2 * (white_left - red_left) + white_kings - red_kings, it is 0 on the
\* constructed board, and exchanging the two colors' counters negates it.
C8_EvaluateFormula ==
    /\ evaluate2 = 2 * (white_left - red_left) + white_kings - red_kings
    /\ Evaluate2Of(red_left, white_left, red_kings, white_kings) = 0 - evaluate2
    /\ (plies = 0 /\ board = create_board) => evaluate2 = 0

\* after a play, with different numbers of pieces and of kings per color
C8_Witness ==
    /\ pc = "idle" /\ plies = 1
    /\ white_left # red_left
    /\ white_kings # red_kings

\* C9: winner() is the top color when the bottom counter is <= 0, the bottom
\* color when the bottom counter is > 0 and the top counter is <= 0, and none
\* otherwise; so it is the other color as soon as no piece of a color is left
\* on the grid, and none while both colors have a piece on the grid, whether
\* or not the queried piece has a move.
C9_Winner ==
    /\ winner = IF red_left <= 0 THEN PLAYER_COLOR_TOP
                ELSE IF white_left <= 0 THEN PLAYER_COLOR_BOTTOM
                ELSE None
    /\ GridCount(PLAYER_COLOR_BOTTOM) = 0 => winner = PLAYER_COLOR_TOP
    /\ (GridCount(PLAYER_COLOR_BOTTOM) > 0 /\ GridCount(PLAYER_COLOR_TOP) = 0)
          => winner = PLAYER_COLOR_BOTTOM
    /\ (GridCount(PLAYER_COLOR_BOTTOM) > 0 /\ GridCount(PLAYER_COLOR_TOP) > 0)
          => winner = None

\* remove has just captured the last piece of a color
C9_Witness ==
    /\ pc = "idle" /\ plies = 1
    /\ \E p \in DOMAIN pieces :
          /\ ~OnGrid(p)
          /\ GridCount(pieces[p].color) = 0
          /\ winner \in Colors \ {pieces[p].color}

C11_KingCountersMatch ==
    /\ white_kings = KingsOnGrid(PLAYER_COLOR_TOP)
    /\ red_kings = KingsOnGrid(PLAYER_COLOR_BOTTOM)

\* what the counters do satisfy: move only adds to them and remove leaves
\* them alone, so each is at least the number of that color's kings on the grid
C11_KingCountersAtLeast ==
    /\ white_kings >= KingsOnGrid(PLAYER_COLOR_TOP)
    /\ red_kings >= KingsOnGrid(PLAYER_COLOR_BOTTOM)

\* the intermediate landing cell of a two-jump path
FirstLanding(p, d, e1) == <<pieces[p].row + 2 * d, pieces[p].col + 2 * e1>>

\* C12: when the landing cell of a jump admits a further jump whose landing
\* cell is returned as a destination, the intermediate landing cell is not
\* returned as a destination.
C12_ContinuationMandatory ==
    pc = "selected" =>
        \A d \in RowDirs(sel), e1 \in {-1, 1}, e2 \in {-1, 1} :
            (/\ TwoJumps(sel, d, e1, e2)
             /\ TwoLanding(sel, d, e1, e2) \in DOMAIN moves
             /\ Len(moves[TwoLanding(sel, d, e1, e2)]) = 2)
                => FirstLanding(sel, d, e1) \notin DOMAIN moves

\* what the traversal does instead: the landing cell of every available first
\* jump is a destination, whether or not a further jump starts from it
C12_FirstLandingOffered ==
    pc = "selected" =>
        \A d \in RowDirs(sel), e1 \in {-1, 1} :
            (/\ Opponent(sel, pieces[sel].row + d, pieces[sel].col + e1)
             /\ EmptyCell(FirstLanding(sel, d, e1)[1], FirstLanding(sel, d, e1)[2]))
                => FirstLanding(sel, d, e1) \in DOMAIN moves

\* C13: every destination returned for a non-king piece has a row smaller
\* than the piece's row if the piece is bottom-color and larger if it is
\* top-color; a king is given the empty diagonally adjacent cells of both row
\* directions; and every piece of a capture list stands on a row strictly
\* between the piece's row and the destination's row, so no chain turns back.
C13_RowDirection ==
    pc = "selected" =>
        LET r == pieces[sel].row
            c == pieces[sel].col
        IN  /\ ~pieces[sel].king =>
                  \A k \in DOMAIN moves :
                      IF pieces[sel].color = PLAYER_COLOR_BOTTOM
                      THEN k[1] < r ELSE k[1] > r
            /\ pieces[sel].king =>
                  \A d \in {-1, 1}, e \in {-1, 1} :
                      EmptyCell(r + d, c + e) => <<r + d, c + e>> \in DOMAIN moves
            /\ \A k \in DOMAIN moves : \A q \in SeqSet(moves[k]) :
                  \/ r < pieces[q].row /\ pieces[q].row < k[1]
                  \/ k[1] < pieces[q].row /\ pieces[q].row < r

\* a king with a destination toward row 0 and a two-jump destination toward
\* the last row
C13_Witness ==
    /\ pc = "selected"
    /\ pieces[sel].king
    /\ \E k \in DOMAIN moves : k[1] < pieces[sel].row
    /\ \E k \in DOMAIN moves : k[1] > pieces[sel].row /\ Len(moves[k]) = 2

\* C14: in every state reached from the constructed board by plays, every cell
\* with col % 2 # (row + 1) % 2 is empty, and every destination that
\* get_valid_moves returns, landing cells of the recursive calls included, is
\* a cell with col % 2 = (row + 1) % 2.
C14_NonPlayableEmpty ==
    /\ \A rc \in Cells : ~Playable(rc[1], rc[2]) => board[rc[1]][rc[2]] = 0
    /\ pc = "selected" => \A k \in DOMAIN moves : Playable(k[1], k[2])

\* a piece has been moved to a landing cell found by a recursive call
C14_Witness ==
    /\ pc = "moved"
    /\ Len(captured) = 2
    /\ Live(sel)

\* cell (r, c) is on the board and holds a piece
Occupied(r, c) == OnBoard(r, c) /\ board[r][c] # 0

\* the cells of the diagonal that leaves piece p in row direction d and
\* column direction e
DiagonalFrom(p, d, e) ==
    {<<pieces[p].row + n * d, pieces[p].col + n * e>> : n \in 1..(ROWS - 1)}

\* the capture list q of destination k belongs to a chain of jumps of piece p
\* that ends on k: every jump of the chain passes over one opponent piece,
\* diagonally adjacent to the cell it leaves and to the empty cell it lands
\* on, and q holds pieces of that chain only, the one jumped last among them
ListFromChain(p, k, q) ==
    \E n \in 1..3 : \E d \in RowDirs(p), es \in [1..n -> {-1, 1}] :
        /\ Chain(p, d, es)
        /\ LandingCell(p, d, es, n) = k
        /\ SeqSet(q) \subseteq ChainPieces(p, d, es)
        /\ board[JumpedCell(p, d, es, n)[1]][JumpedCell(p, d, es, n)[2]] \in SeqSet(q)

\* C15: when an opponent piece stands diagonally next to the queried piece
\* and the next cell of that diagonal holds a piece too, no cell of that
\* diagonal is a destination and neither piece is in a capture list; and every
\* non-empty capture list, of a first jump or of a continuation, belongs to a
\* chain in which each jump passes over exactly one piece onto the empty cell
\* right behind it.
C15_TwoInARowBlock ==
    pc = "selected" =>
        LET r == pieces[sel].row
            c == pieces[sel].col
        IN  /\ \A d \in RowDirs(sel), e \in {-1, 1} :
                  (Opponent(sel, r + d, c + e) /\ Occupied(r + 2 * d, c + 2 * e)) =>
                      /\ DiagonalFrom(sel, d, e) \cap DOMAIN moves = {}
                      /\ \A k \in DOMAIN moves :
                            /\ board[r + d][c + e] \notin SeqSet(moves[k])
                            /\ board[r + 2 * d][c + 2 * e] \notin SeqSet(moves[k])
            /\ \A k \in DOMAIN moves :
                  moves[k] # <<>> => ListFromChain(sel, k, moves[k])

\* two opponent pieces in a row on one diagonal of the queried piece and a
\* capture on another one
C15_Witness ==
    /\ pc = "selected"
    /\ \E d \in RowDirs(sel), e \in {-1, 1} :
          /\ Opponent(sel, pieces[sel].row + d, pieces[sel].col + e)
          /\ Opponent(sel, pieces[sel].row + 2 * d, pieces[sel].col + 2 * e)
          /\ EmptyCell(pieces[sel].row + 3 * d, pieces[sel].col + 3 * e)
    /\ \E k \in DOMAIN moves : moves[k] # <<>>

\* cell (r, c) holds a piece of the color of piece p
OwnPiece(p, r, c) ==
    OnBoard(r, c) /\ board[r][c] # 0 /\ pieces[board[r][c]].color = pieces[p].color

\* C16: a destination with an empty capture list is one row and one column
\* away from the queried piece; a destination with a non-empty capture list is
\* 2, 4 or 6 rows away; no piece of a capture list has the queried piece's
\* color; and when a piece of the queried piece's color stands diagonally next
\* to it in a permitted row direction, no cell of that diagonal is a
\* destination.
C16_StepOrJump ==
    pc = "selected" =>
        LET r == pieces[sel].row
            c == pieces[sel].col
        IN  /\ \A k \in DOMAIN moves :
                  /\ moves[k] = <<>> =>
                        k[1] - r \in {-1, 1} /\ k[2] - c \in {-1, 1}
                  /\ moves[k] # <<>> =>
                        k[1] - r \in {-6, -4, -2, 2, 4, 6}
                  /\ \A q \in SeqSet(moves[k]) : pieces[q].color # pieces[sel].color
            /\ \A d \in RowDirs(sel), e \in {-1, 1} :
                  OwnPiece(sel, r + d, c + e) =>
                      DiagonalFrom(sel, d, e) \cap DOMAIN moves = {}

\* a piece with a single step, a capture destination and a piece of its own
\* color next to it
C16_Witness ==
    /\ pc = "selected"
    /\ \E k \in DOMAIN moves : moves[k] = <<>>
    /\ \E k \in DOMAIN moves : moves[k] # <<>>
    /\ \E d \in RowDirs(sel), e \in {-1, 1} :
          OwnPiece(sel, pieces[sel].row + d, pieces[sel].col + e)

\* C17: in every step of a play, a piece that was not a king and is one
\* afterwards is the piece being moved and has landed on the row farthest from
\* its start (row 0 for bottom-color, the last row for top-color), so no piece
\* is promoted on its home edge row; and a king that is on the grid is still a
\* king after the step.
C17_PromotionOnlyFarRow ==
    [][\A p \in DOMAIN pieces :
          /\ (~pieces[p].king /\ pieces'[p].king) =>
                /\ pc = "selected" /\ pc' = "moved" /\ p = sel
                /\ OnPromotionRow(pieces'[p].row, pieces[p].color)
          /\ (pieces[p].king /\ Live(p)) => pieces'[p].king]_vars

\* a bottom-color piece that was not a king has captured onto row 0 and is a
\* king: the counter, raised once, agrees with the kings on the grid
C17_Witness ==
    /\ pc = "moved"
    /\ pieces[sel].color = PLAYER_COLOR_BOTTOM
    /\ pieces[sel].row = 0
    /\ pieces[sel].king
    /\ captured # <<>>
    /\ red_kings = KingsOnGrid(PLAYER_COLOR_BOTTOM)

\* C18: in every step of a play neither live-piece counter grows and neither
\* is negative afterwards, and when winner() returns a color before the step
\* it returns the same color after it.
C18_DecidedStays ==
    [][/\ white_left' <= white_left
       /\ red_left' <= red_left
       /\ white_left' >= 0
       /\ red_left' >= 0
       /\ winner # None => winner' = winner]_vars

\* a play has been completed on a board that was decided before it: no piece
\* was captured and only one color is on the grid
C18_Witness ==
    /\ pc = "idle" /\ plies = 1
    /\ winner # None
    /\ \A p \in DOMAIN pieces : OnGrid(p)

\* a play has decided the game by capturing two pieces at once
C18_WitnessCapture ==
    /\ pc = "idle" /\ plies = 1
    /\ winner # None
    /\ Cardinality({p \in DOMAIN pieces : ~OnGrid(p)}) = 2

====
